---- MODULE Spec2Model ----
(***************************************************************************)
(* A model of the script language mode of vetur                            *)
(* (server/src/modes/script/javascript.ts): the mode object returned by    *)
(* getJavascriptMode, its operations, and the helper functions of the      *)
(* file.  The TypeScript language service is the environment: what it      *)
(* answers to a query is drawn from small sets.                            *)
(***************************************************************************)
EXTENDS Integers, Sequences, FiniteSets, TLC

VARIABLES
    hostDocs,       \* the host (.vue) documents: uri -> [version, text]
    jsDocuments,    \* the cache of embedded script documents: uri -> Absent or [version, text]
    rootFileNames,  \* the root files of the language service's program (paths)
    config,         \* the closure variable config: Unset ({}) or config.vetur.format.js
    disposed,       \* dispose() has run
    op,             \* the operation that ran last
    arg,            \* its arguments, with what the language service answered
    calls,          \* the service host / language service calls it made, in order
    result,         \* what it returned
    threw,          \* it ended in a TypeError instead of returning
    service         \* what the language service answers for the current program

vars == <<hostDocs, jsDocuments, rootFileNames, config, disposed, op, arg, calls, result, threw, service>>

(***************************************************************************)
(* Bounds of the model.                                                    *)
(***************************************************************************)
MaxVersion == 2     \* host document versions 1..MaxVersion
MaxNodes == 4       \* nodes of a navigation tree
MaxEdits == 2       \* formatting edits in one answer
MaxEntries == 2     \* completion entries in one answer

Max(a, b) == IF a >= b THEN a ELSE b
Min(a, b) == IF a <= b THEN a ELSE b

(***************************************************************************)
(* Documents.  A text is a sequence of characters.                         *)
(***************************************************************************)
UriA == "file:///a.vue"
UriB == "file:///b.vue"
Docs == {UriA, UriB}

TextTwoLines == <<"a", "b", "\n", "c", "d">>
TextOneLine == <<"a", "b", "c", "d">>
Texts == {TextTwoLines, TextOneLine}

\* the languageId of a host document
LanguageId == "vue"

Absent == [version |-> 0, text |-> <<>>]
\* JavaScript's undefined, and an answer of the language service that is undefined
Undefined == "undefined"
Nothing == [defined |-> FALSE]
\* JavaScript's true and false where a value may also be undefined
JsTrue == "true"
JsFalse == "false"

\* getFileFsPath / getFilePath of ./preprocess: the path of a file: URI.
getFileFsPath(uri) == IF uri = UriA THEN "/a.vue" ELSE "/b.vue"
getFilePath(uri) == IF uri = UriA THEN "/a.vue" ELSE "/b.vue"
Paths == {getFileFsPath(u) : u \in Docs}
\* Uri.file(fileName).toString()
UriFile(fileName) == IF fileName = "/a.vue" THEN UriA ELSE UriB

\* TextDocument.positionAt and TextDocument.offsetAt
NewLinesBefore(text, offset) == {i \in 1..offset : text[i] = "\n"}

LineCount(text) == 1 + Cardinality(NewLinesBefore(text, Len(text)))

\* the offset at which line `line` (from 0) starts
LineOffset(text, line) ==
    IF line = 0 THEN 0
    ELSE CHOOSE i \in 1..Len(text) :
            text[i] = "\n" /\ Cardinality(NewLinesBefore(text, i)) = line

positionAt(text, offset) ==
    LET off == Max(Min(offset, Len(text)), 0)
        line == Cardinality(NewLinesBefore(text, off))
    IN  [line |-> line, character |-> off - LineOffset(text, line)]

offsetAt(text, position) ==
    IF position.line >= LineCount(text) THEN Len(text)
    ELSE IF position.line < 0 THEN 0
    ELSE LET lineOffset == LineOffset(text, position.line)
             nextLineOffset == IF position.line + 1 < LineCount(text)
                               THEN LineOffset(text, position.line + 1)
                               ELSE Len(text)
         IN  Max(Min(lineOffset + position.character, nextLineOffset), lineOffset)

\* convertRange(document, span)
convertRange(text, span) ==
    [start |-> positionAt(text, span.start),
     end   |-> positionAt(text, span.start + span.length)]

(***************************************************************************)
(* The classifiers.  The members of CompletionItemKind and SymbolKind are  *)
(* modelled by their names.                                                *)
(***************************************************************************)
\* convertKind without the return after the switch
convertKindOfTable(kind) ==
    CASE kind \in {"primitive type", "keyword"} -> "CompletionItemKind.Keyword"
      [] kind \in {"var", "local var"} -> "CompletionItemKind.Variable"
      [] kind \in {"property", "getter", "setter"} -> "CompletionItemKind.Field"
      [] kind \in {"function", "method", "construct", "call", "index"} -> "CompletionItemKind.Function"
      [] kind = "enum" -> "CompletionItemKind.Enum"
      [] kind = "module" -> "CompletionItemKind.Module"
      [] kind = "class" -> "CompletionItemKind.Class"
      [] kind = "interface" -> "CompletionItemKind.Interface"
      [] kind = "warning" -> "CompletionItemKind.File"
      [] OTHER -> Undefined

convertKind(kind) ==
    CASE kind \in {"primitive type", "keyword"} -> "CompletionItemKind.Keyword"
      [] kind \in {"var", "local var"} -> "CompletionItemKind.Variable"
      [] kind \in {"property", "getter", "setter"} -> "CompletionItemKind.Field"
      [] kind \in {"function", "method", "construct", "call", "index"} -> "CompletionItemKind.Function"
      [] kind = "enum" -> "CompletionItemKind.Enum"
      [] kind = "module" -> "CompletionItemKind.Module"
      [] kind = "class" -> "CompletionItemKind.Class"
      [] kind = "interface" -> "CompletionItemKind.Interface"
      [] kind = "warning" -> "CompletionItemKind.File"
      [] OTHER -> "CompletionItemKind.Property"

convertSymbolKind(kind) ==
    CASE kind \in {"var", "local var", "const"} -> "SymbolKind.Variable"
      [] kind \in {"function", "local function"} -> "SymbolKind.Function"
      [] kind = "enum" -> "SymbolKind.Enum"
      [] kind = "module" -> "SymbolKind.Module"
      [] kind = "class" -> "SymbolKind.Class"
      [] kind = "interface" -> "SymbolKind.Interface"
      [] kind = "method" -> "SymbolKind.Method"
      [] kind \in {"property", "getter", "setter"} -> "SymbolKind.Property"
      [] OTHER -> "SymbolKind.Variable"

(***************************************************************************)
(* The service host and the calls an operation makes.                      *)
(***************************************************************************)
\* one entry of `calls`: the method, the file, the version of the script
\* document the language service sees for it, and the other arguments
Call(method, uri, cache, args) ==
    [method |-> method, file |-> getFileFsPath(uri), version |-> cache[uri].version, args |-> args]

\* updateCurrentTextDocument(doc): the script document of doc at doc's version,
\* taken from jsDocuments when it holds that version and derived otherwise
updateCurrentTextDocument(uri) ==
    LET fresh == [version |-> hostDocs[uri].version, text |-> hostDocs[uri].text]
        cache == IF jsDocuments[uri].version = hostDocs[uri].version
                 THEN jsDocuments
                 ELSE [jsDocuments EXCEPT ![uri] = fresh]
    IN  [cache |-> cache,
         scriptDoc |-> cache[uri].text,
         call |-> Call("updateCurrentTextDocument", uri, cache, <<>>)]

\* getScriptDocByFsPath(fsPath): the script document of that file, if there is one
getScriptDocByFsPath(cache, fsPath) == cache[UriFile(fsPath)]

\* ls.getProgram().getRootFileNames()
getRootFileNames(uri, cache) == Call("getProgram.getRootFileNames", uri, cache, <<>>)

\* a guard that takes every file for a root file
languageServiceIncludesAnyFile(filePaths, documentUri) == filePaths = filePaths

languageServiceIncludesFile(filePaths, documentUri) ==
    LET filePath == getFilePath(documentUri)
    IN  filePath \in filePaths

NULL_SIGNATURE == [signatures |-> <<>>, activeSignature |-> 0, activeParameter |-> 0]
NULL_COMPLETION == [label |-> ""]

\* ts.displayPartsToString(parts): the texts of the parts, joined
RECURSIVE displayPartsToString(_)
displayPartsToString(parts) ==
    IF parts = <<>> THEN "" ELSE Head(parts) \o displayPartsToString(Tail(parts))

\* ts.flattenDiagnosticMessageText(messageText, newLine): the chain of messages,
\* each on its own line
RECURSIVE flattenDiagnosticMessageText(_, _)
flattenDiagnosticMessageText(chain, newLine) ==
    IF Len(chain) = 1 THEN Head(chain)
    ELSE Head(chain) \o newLine \o flattenDiagnosticMessageText(Tail(chain), newLine \o "  ")

\* what every operation leaves behind
Returns(name, input, cache, log, value) ==
    /\ ~disposed
    /\ op' = name
    /\ arg' = input
    /\ jsDocuments' = cache
    /\ calls' = log
    /\ result' = value
    /\ threw' = FALSE
    /\ UNCHANGED <<hostDocs, rootFileNames, config, disposed, service>>

(***************************************************************************)
(* The operations of the mode.                                             *)
(***************************************************************************)
configure(c) ==
    /\ ~disposed
    /\ config' = c
    /\ op' = "configure" /\ arg' = <<>> /\ calls' = <<>> /\ result' = <<>> /\ threw' = FALSE
    /\ UNCHANGED <<hostDocs, jsDocuments, rootFileNames, disposed, service>>

doValidation(uri) ==
    LET u == updateCurrentTextDocument(uri)
        guard == getRootFileNames(uri, u.cache)
        diagnostics == service.syntacticDiagnostics \o service.semanticDiagnostics
    IN  IF ~languageServiceIncludesFile(rootFileNames, uri)
        THEN Returns("doValidation", [uri |-> uri], u.cache, <<u.call, guard>>, <<>>)
        ELSE Returns("doValidation", [uri |-> uri, diagnostics |-> diagnostics], u.cache,
                     <<u.call, guard,
                       Call("getSyntacticDiagnostics", uri, u.cache, <<>>),
                       Call("getSemanticDiagnostics", uri, u.cache, <<>>)>>,
                     [i \in 1..Len(diagnostics) |->
                        [range |-> convertRange(u.scriptDoc, diagnostics[i]),
                         severity |-> "DiagnosticSeverity.Error",
                         message |-> flattenDiagnosticMessageText(diagnostics[i].messageText, "\n")]])

\* the entries of a completion answer that are not the bridge symbol
RECURSIVE filterEntries(_)
\* all the entries, the bridge symbol too
filterNoEntries(entries) == entries

filterEntries(entries) ==
    IF entries = <<>> THEN <<>>
    ELSE IF Head(entries).name # "__vueEditorBridge"
         THEN <<Head(entries)>> \o filterEntries(Tail(entries))
         ELSE filterEntries(Tail(entries))

\* the completion item of one entry
completionItem(uri, scriptDoc, position, offset, entry) ==
    LET item == [uri |-> uri,
                 position |-> position,
                 label |-> entry.name,
                 sortText |-> entry.sortText,
                 kind |-> convertKind(entry.kind),
                 data |-> [languageId |-> LanguageId, uri |-> uri, offset |-> offset]]
        textEdit == [range |-> convertRange(scriptDoc, entry.replacementSpan), newText |-> entry.name]
    IN  IF "replacementSpan" \in DOMAIN entry
        THEN [k \in DOMAIN item \cup {"textEdit"} |-> IF k = "textEdit" THEN textEdit ELSE item[k]]
        ELSE item

doComplete(uri, position) ==
    LET u == updateCurrentTextDocument(uri)
        guard == getRootFileNames(uri, u.cache)
        offset == offsetAt(u.scriptDoc, position)
        completions == service.completions
        query == Call("getCompletionsAtPosition", uri, u.cache, [offset |-> offset])
        entries == filterEntries(completions.entries)
    IN  IF ~languageServiceIncludesFile(rootFileNames, uri)
        THEN Returns("doComplete", [uri |-> uri, position |-> position], u.cache, <<u.call, guard>>,
                     [isIncomplete |-> FALSE, items |-> <<>>])
        ELSE IF ~completions.defined
        THEN Returns("doComplete", [uri |-> uri, position |-> position, completions |-> completions],
                     u.cache, <<u.call, guard, query>>, [isIncomplete |-> FALSE, items |-> <<>>])
        ELSE Returns("doComplete", [uri |-> uri, position |-> position, completions |-> completions],
                     u.cache, <<u.call, guard, query>>,
                     [isIncomplete |-> FALSE,
                      items |-> [i \in 1..Len(entries) |->
                                    completionItem(uri, u.scriptDoc, position, offset, entries[i])]])

\* doResolve that leaves item.data on the resolved item
doResolveKeepingData(uri, item) ==
    LET u == updateCurrentTextDocument(uri)
        guard == getRootFileNames(uri, u.cache)
        details == service.entryDetails[item.label]
        query == Call("getCompletionEntryDetails", uri, u.cache,
                      [offset |-> item.data.offset, name |-> item.label])
        resolved == [k \in DOMAIN item \cup {"detail", "documentation"} |->
                        IF k = "detail" THEN displayPartsToString(details.displayParts)
                        ELSE IF k = "documentation" THEN displayPartsToString(details.documentation)
                        ELSE item[k]]
    IN  IF ~languageServiceIncludesFile(rootFileNames, uri)
        THEN Returns("doResolve", [uri |-> uri, item |-> item], u.cache, <<u.call, guard>>, NULL_COMPLETION)
        ELSE Returns("doResolve", [uri |-> uri, item |-> item, details |-> details], u.cache,
                     <<u.call, guard, query>>,
                     IF details.defined THEN resolved ELSE item)

doResolve(uri, item) ==
    LET u == updateCurrentTextDocument(uri)
        guard == getRootFileNames(uri, u.cache)
        details == service.entryDetails[item.label]
        query == Call("getCompletionEntryDetails", uri, u.cache,
                      [offset |-> item.data.offset, name |-> item.label])
        resolved == [k \in (DOMAIN item \ {"data"}) \cup {"detail", "documentation"} |->
                        IF k = "detail" THEN displayPartsToString(details.displayParts)
                        ELSE IF k = "documentation" THEN displayPartsToString(details.documentation)
                        ELSE item[k]]
    IN  IF ~languageServiceIncludesFile(rootFileNames, uri)
        THEN Returns("doResolve", [uri |-> uri, item |-> item], u.cache, <<u.call, guard>>, NULL_COMPLETION)
        ELSE Returns("doResolve", [uri |-> uri, item |-> item, details |-> details], u.cache,
                     <<u.call, guard, query>>,
                     IF details.defined THEN resolved ELSE item)

doHover(uri, position) ==
    LET u == updateCurrentTextDocument(uri)
        guard == getRootFileNames(uri, u.cache)
        info == service.quickInfo
        query == Call("getQuickInfoAtPosition", uri, u.cache, [offset |-> offsetAt(u.scriptDoc, position)])
        display == displayPartsToString(info.displayParts)
        doc == displayPartsToString(info.documentation)
        markedContents == <<[language |-> "ts", value |-> display]>>
    IN  IF ~languageServiceIncludesFile(rootFileNames, uri)
        THEN Returns("doHover", [uri |-> uri, position |-> position], u.cache, <<u.call, guard>>,
                     [contents |-> <<>>])
        ELSE Returns("doHover", [uri |-> uri, position |-> position, info |-> info], u.cache,
                     <<u.call, guard, query>>,
                     IF info.defined
                     THEN [range |-> convertRange(u.scriptDoc, info.textSpan),
                           contents |-> IF doc # "" THEN <<doc, "\n">> \o markedContents
                                        ELSE markedContents]
                     ELSE [contents |-> <<>>])

\* the label of a signature's parameters, with the separator between them
RECURSIVE parametersLabel(_, _)
parametersLabel(parameters, separator) ==
    IF parameters = <<>> THEN ""
    ELSE displayPartsToString(Head(parameters).displayParts)
         \o (IF Len(parameters) > 1 THEN displayPartsToString(separator) ELSE "")
         \o parametersLabel(Tail(parameters), separator)

signatureInformation(item) ==
    [label |-> displayPartsToString(item.prefixDisplayParts)
               \o parametersLabel(item.parameters, item.separatorDisplayParts)
               \o displayPartsToString(item.suffixDisplayParts),
     documentation |-> Undefined,
     parameters |-> [i \in 1..Len(item.parameters) |->
                       [label |-> displayPartsToString(item.parameters[i].displayParts),
                        documentation |-> displayPartsToString(item.parameters[i].documentation)]]]

doSignatureHelp(uri, position) ==
    LET u == updateCurrentTextDocument(uri)
        guard == getRootFileNames(uri, u.cache)
        signHelp == service.signatureHelp
        query == Call("getSignatureHelpItems", uri, u.cache, [offset |-> offsetAt(u.scriptDoc, position)])
    IN  IF ~languageServiceIncludesFile(rootFileNames, uri)
        THEN Returns("doSignatureHelp", [uri |-> uri, position |-> position], u.cache,
                     <<u.call, guard>>, NULL_SIGNATURE)
        ELSE Returns("doSignatureHelp", [uri |-> uri, position |-> position, signHelp |-> signHelp],
                     u.cache, <<u.call, guard, query>>,
                     IF ~signHelp.defined THEN NULL_SIGNATURE
                     ELSE [activeSignature |-> signHelp.selectedItemIndex,
                           activeParameter |-> signHelp.argumentIndex,
                           signatures |-> [i \in 1..Len(signHelp.items) |->
                                             signatureInformation(signHelp.items[i])]])

findDocumentHighlight(uri, position) ==
    LET u == updateCurrentTextDocument(uri)
        guard == getRootFileNames(uri, u.cache)
        occurrences == service.occurrences
        query == Call("getOccurrencesAtPosition", uri, u.cache, [offset |-> offsetAt(u.scriptDoc, position)])
    IN  IF ~languageServiceIncludesFile(rootFileNames, uri)
        THEN Returns("findDocumentHighlight", [uri |-> uri, position |-> position], u.cache,
                     <<u.call, guard>>, <<>>)
        ELSE Returns("findDocumentHighlight",
                     [uri |-> uri, position |-> position, occurrences |-> occurrences],
                     u.cache, <<u.call, guard, query>>,
                     IF occurrences.defined
                     THEN [i \in 1..Len(occurrences.entries) |->
                             [range |-> convertRange(u.scriptDoc, occurrences.entries[i].textSpan),
                              kind |-> IF occurrences.entries[i].isWriteAccess
                                       THEN "DocumentHighlightKind.Write"
                                       ELSE "DocumentHighlightKind.Text"]]
                     ELSE <<>>)

(***************************************************************************)
(* The outline.  A navigation tree is a sequence of nodes in depth-first   *)
(* order, each naming its parent (0: a top-level item).                    *)
(***************************************************************************)
\* item.childItems, in order
childItems(items, i) == {j \in 1..Len(items) : items[j].parent = i}

\* the key of collectSymbols: item.text + item.kind + item.spans[0].start
sig(item) == item.text \o item.kind \o ToString(item.spans[1].start)

\* collectSymbols(item, containerLabel), on the closure's result and existing;
\* collectChildren is its loop over the child items from the j-th on
RECURSIVE collectSymbols(_, _, _, _, _, _)
RECURSIVE collectChildren(_, _, _, _, _, _, _)
\* collectSymbols that takes a script node for a symbol too
collectSymbolsOfScript(items, uri, scriptDoc, i, containerLabel, acc) ==
    LET item == items[i]
        emit == sig(item) \notin acc.existing
        symbol == [name |-> item.text,
                   kind |-> convertSymbolKind(item.kind),
                   location |-> [uri |-> uri, range |-> convertRange(scriptDoc, item.spans[1])],
                   containerName |-> containerLabel]
        after == IF emit
                 THEN [result |-> Append(acc.result, symbol), existing |-> acc.existing \cup {sig(item)}]
                 ELSE acc
        label == IF emit THEN item.text ELSE containerLabel
    IN  collectChildren(items, uri, scriptDoc, i, 1, label, after)

\* collectSymbols that names the children of a duplicate after the duplicate
collectSymbolsRelabelling(items, uri, scriptDoc, i, containerLabel, acc) ==
    LET item == items[i]
        emit == item.kind # "script" /\ sig(item) \notin acc.existing
        symbol == [name |-> item.text,
                   kind |-> convertSymbolKind(item.kind),
                   location |-> [uri |-> uri, range |-> convertRange(scriptDoc, item.spans[1])],
                   containerName |-> containerLabel]
        after == IF emit
                 THEN [result |-> Append(acc.result, symbol), existing |-> acc.existing \cup {sig(item)}]
                 ELSE acc
        label == IF item.kind # "script" THEN item.text ELSE containerLabel
    IN  collectChildren(items, uri, scriptDoc, i, 1, label, after)

collectSymbols(items, uri, scriptDoc, i, containerLabel, acc) ==
    LET item == items[i]
        emit == item.kind # "script" /\ sig(item) \notin acc.existing
        symbol == [name |-> item.text,
                   kind |-> convertSymbolKind(item.kind),
                   location |-> [uri |-> uri, range |-> convertRange(scriptDoc, item.spans[1])],
                   containerName |-> containerLabel]
        after == IF emit
                 THEN [result |-> Append(acc.result, symbol), existing |-> acc.existing \cup {sig(item)}]
                 ELSE acc
        label == IF emit THEN item.text ELSE containerLabel
    IN  collectChildren(items, uri, scriptDoc, i, 1, label, after)

collectChildren(items, uri, scriptDoc, parent, j, containerLabel, acc) ==
    IF j > Len(items) THEN acc
    ELSE IF j \in childItems(items, parent)
         THEN collectChildren(items, uri, scriptDoc, parent, j + 1, containerLabel,
                              collectSymbols(items, uri, scriptDoc, j, containerLabel, acc))
         ELSE collectChildren(items, uri, scriptDoc, parent, j + 1, containerLabel, acc)

findDocumentSymbols(uri) ==
    LET u == updateCurrentTextDocument(uri)
        guard == getRootFileNames(uri, u.cache)
        items == service.navigationBarItems
        query == Call("getNavigationBarItems", uri, u.cache, <<>>)
    IN  IF ~languageServiceIncludesFile(rootFileNames, uri)
        THEN Returns("findDocumentSymbols", [uri |-> uri], u.cache, <<u.call, guard>>, <<>>)
        ELSE Returns("findDocumentSymbols", [uri |-> uri, items |-> items], u.cache,
                     <<u.call, guard, query>>,
                     IF items.defined
                     THEN collectChildren(items.items, uri, u.scriptDoc, 0, 1, Undefined,
                                          [result |-> <<>>, existing |-> {}]).result
                     ELSE <<>>)

(***************************************************************************)
(* Definitions and references.                                             *)
(***************************************************************************)
\* the forEach loop of findDefinition and findReferences over the targets
RECURSIVE locations(_, _, _)
locations(cache, fileFsPath, targets) ==
    IF targets = <<>> THEN <<>>
    ELSE LET d == Head(targets)
             targetDoc == getScriptDocByFsPath(cache, fileFsPath)
         IN  (IF targetDoc # Absent
              THEN <<[uri |-> UriFile(d.fileName), range |-> convertRange(targetDoc.text, d.textSpan)]>>
              ELSE <<>>)
             \o locations(cache, fileFsPath, Tail(targets))

findDefinition(uri, position) ==
    LET u == updateCurrentTextDocument(uri)
        guard == getRootFileNames(uri, u.cache)
        definitions == service.definitions
        query == Call("getDefinitionAtPosition", uri, u.cache, [offset |-> offsetAt(u.scriptDoc, position)])
    IN  IF ~languageServiceIncludesFile(rootFileNames, uri)
        THEN Returns("findDefinition", [uri |-> uri, position |-> position], u.cache,
                     <<u.call, guard>>, <<>>)
        ELSE Returns("findDefinition", [uri |-> uri, position |-> position, targets |-> definitions],
                     u.cache, <<u.call, guard, query>>,
                     IF ~definitions.defined THEN <<>>
                     ELSE locations(u.cache, getFileFsPath(uri), definitions.targets))

findReferences(uri, position) ==
    LET u == updateCurrentTextDocument(uri)
        guard == getRootFileNames(uri, u.cache)
        references == service.references
        query == Call("getReferencesAtPosition", uri, u.cache, [offset |-> offsetAt(u.scriptDoc, position)])
    IN  IF ~languageServiceIncludesFile(rootFileNames, uri)
        THEN Returns("findReferences", [uri |-> uri, position |-> position], u.cache,
                     <<u.call, guard>>, <<>>)
        ELSE Returns("findReferences", [uri |-> uri, position |-> position, targets |-> references],
                     u.cache, <<u.call, guard, query>>,
                     IF ~references.defined THEN <<>>
                     ELSE locations(u.cache, getFileFsPath(uri), references.targets))

(***************************************************************************)
(* Formatting.  An options object is a function from its keys to values.   *)
(***************************************************************************)
Unset == [set |-> FALSE]

\* _.assign(object, source)
assign(object, source) ==
    [k \in DOMAIN object \cup DOMAIN source |-> IF k \in DOMAIN source THEN source[k] ELSE object[k]]

\* object[key], undefined when object has no such key
get(object, key) == IF key \in DOMAIN object THEN object[key] ELSE Undefined

convertOptions(options, formatSettings, initialIndentLevel) ==
    LET defaultJsFormattingOptions ==
            [ConvertTabsToSpaces |-> options.insertSpaces,
             TabSize |-> options.tabSize,
             IndentSize |-> options.tabSize,
             IndentStyle |-> "IndentStyle.Smart",
             NewLineCharacter |-> "\n",
             BaseIndentSize |-> options.tabSize * initialIndentLevel,
             InsertSpaceAfterCommaDelimiter |-> JsTrue,
             InsertSpaceAfterSemicolonInForStatements |-> JsTrue,
             InsertSpaceAfterKeywordsInControlFlowStatements |-> JsTrue,
             InsertSpaceAfterFunctionKeywordForAnonymousFunctions |-> JsTrue,
             InsertSpaceAfterOpeningAndBeforeClosingNonemptyParenthesis |-> JsFalse,
             InsertSpaceAfterOpeningAndBeforeClosingNonemptyBrackets |-> JsFalse,
             InsertSpaceAfterOpeningAndBeforeClosingTemplateStringBraces |-> JsFalse,
             InsertSpaceBeforeFunctionParenthesis |-> JsTrue,
             InsertSpaceBeforeAndAfterBinaryOperators |-> JsTrue,
             PlaceOpenBraceOnNewLineForControlBlocks |-> JsFalse,
             PlaceOpenBraceOnNewLineForFunctions |-> JsFalse]
    IN  assign(defaultJsFormattingOptions, formatSettings)

\* the settings format hands to the language service
formatSettingsOf(formatParams, js) ==
    LET initialIndentLevel == IF formatParams.scriptInitialIndent = JsTrue THEN 1 ELSE 0
        formatSettings == convertOptions(formatParams, js, initialIndentLevel)
    IN  [formatSettings EXCEPT !["InsertSpaceAfterFunctionKeywordForAnonymousFunctions"] =
            get(js, "InsertSpaceBeforeFunctionParenthesis")]

\* the loop of format over the edits
RECURSIVE clipEdits(_, _, _, _)
\* the loop with an edit's end compared to the range's end by < for <=
clipEditsBeforeEnd(scriptDoc, edits, start, end) ==
    IF edits = <<>> THEN <<>>
    ELSE LET edit == Head(edits)
         IN  (IF edit.span.start >= start /\ edit.span.start + edit.span.length < end
              THEN <<[range |-> convertRange(scriptDoc, edit.span), newText |-> edit.newText]>>
              ELSE <<>>)
             \o clipEdits(scriptDoc, Tail(edits), start, end)

clipEdits(scriptDoc, edits, start, end) ==
    IF edits = <<>> THEN <<>>
    ELSE LET edit == Head(edits)
         IN  (IF edit.span.start >= start /\ edit.span.start + edit.span.length <= end
              THEN <<[range |-> convertRange(scriptDoc, edit.span), newText |-> edit.newText]>>
              ELSE <<>>)
             \o clipEdits(scriptDoc, Tail(edits), start, end)

format(uri, range, formatParams) ==
    IF ~config.set
    THEN /\ ~disposed
         /\ op' = "format"
         /\ arg' = [uri |-> uri, range |-> range, formatParams |-> formatParams]
         /\ calls' = <<>>
         /\ result' = <<>>
         /\ threw' = TRUE
         /\ UNCHANGED <<hostDocs, jsDocuments, rootFileNames, config, disposed, service>>
    ELSE LET formatSettings == formatSettingsOf(formatParams, config.js)
             u == updateCurrentTextDocument(uri)
             start == offsetAt(u.scriptDoc, range.start)
             end == offsetAt(u.scriptDoc, range.end)
             edits == service.formattingEdits
         IN  Returns("format",
                     [uri |-> uri, range |-> range, formatParams |-> formatParams, edits |-> edits],
                     u.cache,
                     <<u.call,
                       Call("getFormattingEditsForRange", uri, u.cache,
                            [start |-> start, end |-> end, settings |-> formatSettings])>>,
                     IF edits.defined THEN clipEdits(u.scriptDoc, edits.edits, start, end) ELSE <<>>)

\* findComponents without the refresh of the script document
findComponentsStale(uri) ==
    Returns("findComponents", [uri |-> uri], jsDocuments,
            <<Call("findComponents", uri, jsDocuments, <<>>)>>,
            service.components)

findComponents(uri) ==
    LET u == updateCurrentTextDocument(uri)
    IN  Returns("findComponents", [uri |-> uri], u.cache,
                <<u.call, Call("findComponents", uri, u.cache, <<>>)>>,
                service.components)

onDocumentRemoved(uri) ==
    /\ ~disposed
    /\ jsDocuments' = [jsDocuments EXCEPT ![uri] = Absent]
    /\ op' = "onDocumentRemoved" /\ arg' = [uri |-> uri] /\ calls' = <<>> /\ result' = <<>>
    /\ threw' = FALSE
    /\ UNCHANGED <<hostDocs, rootFileNames, config, disposed, service>>

dispose ==
    /\ ~disposed
    /\ disposed' = TRUE
    /\ jsDocuments' = [u \in Docs |-> Absent]
    /\ op' = "dispose" /\ arg' = <<>> /\ calls' = <<>> /\ result' = <<>> /\ threw' = FALSE
    /\ UNCHANGED <<hostDocs, rootFileNames, config, service>>

(***************************************************************************)
(* The environment: the host edits a document, the program of the language *)
(* service gains or loses root files, and what the language service        *)
(* answers.                                                                *)
(***************************************************************************)
Span(start, length) == [start |-> start, length |-> length]
Position(line, character) == [line |-> line, character |-> character]

EntryNames == {"x", "y", "__vueEditorBridge"}
SomeDetails == [defined |-> TRUE, displayParts |-> <<"var ", "x">>, documentation |-> <<"doc">>]

ServiceEmpty ==
    [syntacticDiagnostics |-> <<>>,
     semanticDiagnostics |-> <<>>,
     completions |-> Nothing,
     entryDetails |-> [n \in EntryNames |-> Nothing],
     quickInfo |-> Nothing,
     signatureHelp |-> Nothing,
     occurrences |-> Nothing,
     navigationBarItems |-> Nothing,
     definitions |-> Nothing,
     references |-> Nothing,
     formattingEdits |-> Nothing,
     components |-> <<>>]

ServiceFull ==
    [syntacticDiagnostics |-> <<[start |-> 0, length |-> 1, messageText |-> <<"';' expected.">>]>>,
     semanticDiagnostics |-> <<[start |-> 3, length |-> 2,
                                messageText |-> <<"Type 'x' is not assignable.", "Types differ.">>]>>,
     completions |-> [defined |-> TRUE,
                      entries |-> <<[name |-> "x", kind |-> "property", sortText |-> "0"],
                                    [name |-> "__vueEditorBridge", kind |-> "function", sortText |-> "0"],
                                    [name |-> "y", kind |-> "let", sortText |-> "1",
                                     replacementSpan |-> Span(3, 1)]>>],
     entryDetails |-> [n \in EntryNames |-> IF n = "x" THEN SomeDetails ELSE Nothing],
     quickInfo |-> [defined |-> TRUE, displayParts |-> <<"var ", "x">>, documentation |-> <<"doc">>,
                    textSpan |-> Span(3, 1)],
     signatureHelp |-> [defined |-> TRUE, selectedItemIndex |-> 0, argumentIndex |-> 1,
                        items |-> <<[prefixDisplayParts |-> <<"f", "(">>,
                                     separatorDisplayParts |-> <<", ">>,
                                     suffixDisplayParts |-> <<")">>,
                                     parameters |-> <<[displayParts |-> <<"a">>, documentation |-> <<>>],
                                                      [displayParts |-> <<"b">>, documentation |-> <<"second">>]>>]>>],
     occurrences |-> [defined |-> TRUE,
                      entries |-> <<[textSpan |-> Span(0, 1), isWriteAccess |-> TRUE],
                                    [textSpan |-> Span(3, 1), isWriteAccess |-> FALSE]>>],
     navigationBarItems |-> [defined |-> TRUE,
                             items |-> <<[text |-> "<global>", kind |-> "script", spans |-> <<Span(0, 4)>>, parent |-> 0],
                                         [text |-> "A", kind |-> "class", spans |-> <<Span(0, 2)>>, parent |-> 1],
                                         [text |-> "m", kind |-> "method", spans |-> <<Span(3, 1)>>, parent |-> 2]>>],
     definitions |-> [defined |-> TRUE,
                      targets |-> <<[fileName |-> "/a.vue", textSpan |-> Span(0, 1)],
                                    [fileName |-> "/b.vue", textSpan |-> Span(3, 1)]>>],
     references |-> [defined |-> TRUE,
                     targets |-> <<[fileName |-> "/b.vue", textSpan |-> Span(3, 1)],
                                   [fileName |-> "/a.vue", textSpan |-> Span(3, 1)]>>],
     formattingEdits |-> [defined |-> TRUE,
                          edits |-> <<[span |-> Span(0, 2), newText |-> " "],
                                      [span |-> Span(2, 3), newText |-> ""]>>],
     components |-> <<"my-component">>]

SmallServices == {ServiceEmpty, ServiceFull}

\* config.vetur.format.js
FormatKeys == {"InsertSpaceBeforeFunctionParenthesis", "InsertSpaceAfterFunctionKeywordForAnonymousFunctions"}
FormatJs == UNION {[keys -> {JsTrue, JsFalse}] : keys \in SUBSET FormatKeys}
SmallConfigs == {[set |-> TRUE, js |-> js] :
                    js \in {f \in FormatJs : DOMAIN f \subseteq {"InsertSpaceBeforeFunctionParenthesis"}}}

Positions == {Position(0, 1), Position(1, 1)}
Ranges == {[start |-> Position(0, 0), end |-> Position(1, 2)],
           [start |-> Position(0, 1), end |-> Position(0, 3)]}
FormatParams == {[tabSize |-> 2, insertSpaces |-> JsTrue, scriptInitialIndent |-> JsFalse],
                 [tabSize |-> 4, insertSpaces |-> JsFalse, scriptInitialIndent |-> JsTrue]}

\* the completion items a client holds for a document: items doComplete returned
ClientEntries == {[name |-> "x", kind |-> "property", sortText |-> "0"],
                  [name |-> "y", kind |-> "let", sortText |-> "1", replacementSpan |-> Span(3, 1)]}
ClientItems(uri) ==
    {completionItem(uri, TextTwoLines, position, offsetAt(TextTwoLines, position), entry) :
        position \in Positions, entry \in ClientEntries}

\* the host changes a document: a new text, the next version
didChangeContent(uri, text, answers) ==
    /\ ~disposed
    /\ hostDocs[uri].version < MaxVersion
    /\ text # hostDocs[uri].text
    /\ hostDocs' = [hostDocs EXCEPT ![uri] = [version |-> @.version + 1, text |-> text]]
    /\ service' = answers
    /\ op' = "didChangeContent" /\ arg' = [uri |-> uri] /\ calls' = <<>> /\ result' = <<>>
    /\ threw' = FALSE
    /\ UNCHANGED <<jsDocuments, rootFileNames, config, disposed>>

\* the program of the language service has other root files
programChanges(paths) ==
    /\ ~disposed
    /\ paths # rootFileNames
    /\ rootFileNames' = paths
    /\ op' = "programChanges" /\ arg' = <<>> /\ calls' = <<>> /\ result' = <<>> /\ threw' = FALSE
    /\ UNCHANGED <<hostDocs, jsDocuments, config, disposed, service>>

\* the mode getJavascriptMode returns, with a workspace path
InitWith(roots) ==
    /\ hostDocs = [u \in Docs |-> [version |-> 1, text |-> IF u = UriA THEN TextTwoLines ELSE TextOneLine]]
    /\ jsDocuments = [u \in Docs |-> Absent]
    /\ rootFileNames \in roots
    /\ config = Unset
    /\ disposed = FALSE
    /\ op = "getJavascriptMode"
    /\ arg = <<>>
    /\ calls = <<>>
    /\ result = <<>>
    /\ threw = FALSE

Init == InitWith(SUBSET Paths) /\ service \in SmallServices

Next ==
    \/ \E c \in SmallConfigs : configure(c)
    \/ \E uri \in Docs : doValidation(uri)
    \/ \E uri \in Docs, position \in Positions : doComplete(uri, position)
    \/ \E uri \in Docs : \E item \in ClientItems(uri) : doResolve(uri, item)
    \/ \E uri \in Docs, position \in Positions : doHover(uri, position)
    \/ \E uri \in Docs, position \in Positions : doSignatureHelp(uri, position)
    \/ \E uri \in Docs, position \in Positions : findDocumentHighlight(uri, position)
    \/ \E uri \in Docs : findDocumentSymbols(uri)
    \/ \E uri \in Docs, position \in Positions : findDefinition(uri, position)
    \/ \E uri \in Docs, position \in Positions : findReferences(uri, position)
    \/ \E uri \in Docs, range \in Ranges, formatParams \in FormatParams : format(uri, range, formatParams)
    \/ \E uri \in Docs : findComponents(uri)
    \/ \E uri \in Docs : onDocumentRemoved(uri)
    \/ dispose
    \/ \E uri \in Docs, text \in Texts, answers \in SmallServices : didChangeContent(uri, text, answers)
    \/ \E paths \in SUBSET Paths : programChanges(paths)

Spec == Init /\ [][Next]_vars

(***************************************************************************)
(* The guard of the read operations.                                       *)
(***************************************************************************)
ReadOps == {"doValidation", "doComplete", "doResolve", "doHover", "doSignatureHelp",
            "findDocumentHighlight", "findDocumentSymbols", "findDefinition", "findReferences"}
QueryOps == ReadOps \cup {"format", "findComponents"}

EmptyValue(name) ==
    CASE name = "doComplete" -> [isIncomplete |-> FALSE, items |-> <<>>]
      [] name = "doResolve" -> NULL_COMPLETION
      [] name = "doHover" -> [contents |-> <<>>]
      [] name = "doSignatureHelp" -> NULL_SIGNATURE
      [] OTHER -> <<>>

\* C1: a read operation on a document whose path is not a root file of the
\* program returns its empty value, and calls nothing of the language service
\* but the root-file membership check (after the refresh of the script document).
C1_GuardReturnsEmpty ==
    (op \in ReadOps /\ getFilePath(arg.uri) \notin rootFileNames) =>
        /\ result = EmptyValue(op)
        /\ \E i \in 1..Len(calls) : calls[i].method = "getProgram.getRootFileNames"
        /\ \A i \in 1..Len(calls) :
              calls[i].method \in {"updateCurrentTextDocument", "getProgram.getRootFileNames"}

\* a definition request on a file outside the program, for which the language
\* service would have had targets
C1_Witness ==
    /\ op = "findDefinition"
    /\ getFilePath(arg.uri) \notin rootFileNames
    /\ service.definitions.defined
    /\ result = <<>>

(***************************************************************************)
(* The refresh of the script document.                                     *)
(***************************************************************************)
RefreshedFirst ==
    /\ op \in QueryOps /\ ~threw => calls # <<>>
    /\ calls # <<>> =>
        /\ calls[1].method = "updateCurrentTextDocument"
        /\ calls[1].file = getFileFsPath(arg.uri)
        /\ \A i \in 1..Len(calls) :
              /\ calls[i].file = calls[1].file
              /\ calls[i].version = hostDocs[arg.uri].version
              /\ i > 1 => calls[i].method # "updateCurrentTextDocument"

RefreshOnlyInOperation ==
    \A uri \in Docs :
        (jsDocuments'[uri] # jsDocuments[uri] /\ jsDocuments'[uri] # Absent) =>
            /\ op' \in QueryOps
            /\ arg'.uri = uri
            /\ calls'[1].method = "updateCurrentTextDocument"
            /\ jsDocuments'[uri] = [version |-> hostDocs[uri].version, text |-> hostDocs[uri].text]

\* C2: every operation that calls the language service first refreshes the script
\* document of its host document, so that each call sees the document at the host
\* document's version of that moment; and the script document is refreshed only by
\* such an operation, never by an edit of the host document.
C2_RefreshBeforeQuery == [](RefreshedFirst) /\ [][RefreshOnlyInOperation]_vars

\* a hover on a.vue after an edit sees version 2, while the script document of
\* b.vue, edited too, is still the one of version 1
C2_Witness ==
    /\ op = "doHover"
    /\ arg.uri = UriA
    /\ hostDocs[UriA].version = 2
    /\ Len(calls) = 3
    /\ calls[3].method = "getQuickInfoAtPosition"
    /\ calls[3].version = 2
    /\ hostDocs[UriB].version = 2
    /\ jsDocuments[UriB].version = 1

(***************************************************************************)
(* The settings of format.                                                 *)
(***************************************************************************)
\* C4: the settings format hands to the language service have
\* InsertSpaceAfterFunctionKeywordForAnonymousFunctions equal to their own
\* InsertSpaceBeforeFunctionParenthesis, whatever config.vetur.format.js defines.
C4_AnonymousFunctionSpacingConsistent ==
    (op = "format" /\ ~threw) =>
        LET settings == calls[2].args.settings
        IN  settings["InsertSpaceAfterFunctionKeywordForAnonymousFunctions"]
                = settings["InsertSpaceBeforeFunctionParenthesis"]

(***************************************************************************)
(* The locations of findDefinition and findReferences.                     *)
(***************************************************************************)
\* C10: the range of every location findDefinition and findReferences return is the
\* target's span resolved in the script document of the target's file, the file the
\* location's URI names.
C10_RangeResolvedInTargetFile ==
    (op \in {"findDefinition", "findReferences"} /\ "targets" \in DOMAIN arg /\ arg.targets.defined) =>
        /\ Len(result) = Len(arg.targets.targets)
        /\ \A i \in 1..Len(result) :
              LET target == arg.targets.targets[i]
                  targetDoc == jsDocuments[UriFile(target.fileName)]
              IN  /\ result[i].uri = UriFile(target.fileName)
                  /\ targetDoc # Absent =>
                        result[i].range = convertRange(targetDoc.text, target.textSpan)

(***************************************************************************)
(* The outline of findDocumentSymbols, over the navigation trees of up to  *)
(* MaxNodes nodes.                                                         *)
(***************************************************************************)
NodeLabels ==
    {[text |-> "A", kind |-> "class", spans |-> <<Span(0, 1), Span(3, 1)>>],
     [text |-> "A", kind |-> "class", spans |-> <<Span(3, 1)>>],
     [text |-> "B", kind |-> "method", spans |-> <<Span(0, 1)>>],
     [text |-> "A", kind |-> "script", spans |-> <<Span(0, 4)>>]}

\* node i and its ancestors, where parents[j] is the parent of node j (0: none)
RECURSIVE AncestorsOrSelf(_, _)
AncestorsOrSelf(parents, i) ==
    IF i = 0 THEN {0} ELSE {i} \cup AncestorsOrSelf(parents, parents[i])

\* the shapes of the trees of n nodes in depth-first order: a node is a top-level
\* item, or a child of the node before it or of one of that node's ancestors
Shapes(n) ==
    {parents \in [1..n -> 0..(n - 1)] :
        \A i \in 1..n : parents[i] \in AncestorsOrSelf(parents, i - 1)}

Tree(labels, parents) ==
    [i \in 1..Len(labels) |->
        [text |-> labels[i].text, kind |-> labels[i].kind, spans |-> labels[i].spans,
         parent |-> parents[i]]]

InitSymbols ==
    /\ InitWith({Paths})
    /\ \E n \in 0..MaxNodes :
          \E parents \in Shapes(n), labels \in [1..n -> NodeLabels] :
              service = [ServiceFull EXCEPT
                            !.navigationBarItems = [defined |-> TRUE, items |-> Tree(labels, parents)]]

NextSymbols == findDocumentSymbols(UriA)

SpecSymbols == InitSymbols /\ [][NextSymbols]_vars

\* the nodes of the tree findDocumentSymbols was given
Items == arg.items.items

\* the node is the first of its name, kind and first-span start in depth-first
\* order, and no script node: the nodes an outline symbol stands for
IsFirst(i) ==
    /\ Items[i].kind # "script"
    /\ \A j \in 1..(i - 1) :
          ~(/\ Items[j].text = Items[i].text
            /\ Items[j].kind = Items[i].kind
            /\ Items[j].spans[1].start = Items[i].spans[1].start)

Firsts == {i \in 1..Len(Items) : IsFirst(i)}

\* the k-th node of a set of nodes, in depth-first order
Nth(nodes, k) == CHOOSE i \in nodes : Cardinality({j \in nodes : j < i}) = k - 1

\* the nearest proper ancestor of node i that an outline symbol stands for (0: none)
RECURSIVE EmittedAncestor(_)
EmittedAncestor(i) ==
    LET parent == Items[i].parent
    IN  IF parent = 0 THEN 0
        ELSE IF IsFirst(parent) THEN parent
        ELSE EmittedAncestor(parent)

ContainerOf(i) == IF EmittedAncestor(i) = 0 THEN Undefined ELSE Items[EmittedAncestor(i)].text

Outlined == op = "findDocumentSymbols" /\ "items" \in DOMAIN arg /\ arg.items.defined

\* the index in the result of the symbol of node i, a node of Firsts
SymbolOf(i) == result[Cardinality({j \in Firsts : j <= i})]

\* C6: a script node stands for no symbol: the outline is the nodes that are no
\* script nodes, each once (the first of its name, kind and first-span start), in
\* depth-first order with siblings in the order of the tree.  The children of a
\* script node get the container name the script node was visited with, so the
\* children of a top-level script node get none.
C6_ScriptNodeSkipped ==
    Outlined =>
        /\ Len(result) = Cardinality(Firsts)
        /\ \A k \in 1..Len(result) :
              LET item == Items[Nth(Firsts, k)]
              IN  /\ result[k].name = item.text
                  /\ result[k].kind = convertSymbolKind(item.kind)
                  /\ result[k].location = [uri |-> arg.uri,
                                            range |-> convertRange(jsDocuments[arg.uri].text, item.spans[1])]
        /\ \A i \in Firsts :
              Items[i].parent # 0 /\ Items[Items[i].parent].kind = "script" =>
                  /\ SymbolOf(i).containerName = ContainerOf(Items[i].parent)
                  /\ Items[Items[i].parent].parent = 0 => SymbolOf(i).containerName = Undefined

\* a top-level script node with a class and, in it, a method: two symbols, the
\* class without a container
C6_Witness ==
    /\ Outlined
    /\ Len(Items) = 3
    /\ Items[1].kind = "script" /\ Items[1].parent = 0
    /\ Items[2].kind = "class" /\ Items[2].parent = 1
    /\ Items[3].kind = "method" /\ Items[3].parent = 2
    /\ Len(result) = 2
    /\ result[1].containerName = Undefined
    /\ result[2].containerName = "A"

\* two siblings of one name, kind and first-span start, each with a child that
\* stands for a symbol
DuplicateSiblings(i, j) ==
    /\ i < j
    /\ Items[i].parent = Items[j].parent
    /\ Items[i].text = Items[j].text
    /\ Items[i].kind = Items[j].kind
    /\ Items[i].spans[1].start = Items[j].spans[1].start

\* C5: of two siblings of one name, kind and first-span start (the first of them
\* the first such node of the tree, and no script node), one symbol is in the
\* outline, the children of both are visited, and the children of the one and of
\* the other get the same container name.
C5_DuplicateSiblingsSameContainer ==
    Outlined =>
        \A i, j \in 1..Len(Items) :
            DuplicateSiblings(i, j) /\ i \in Firsts =>
                /\ Cardinality({i, j} \cap Firsts) = 1
                /\ \A c, d \in Firsts :
                      Items[c].parent = i /\ Items[d].parent = j =>
                          SymbolOf(c).containerName = SymbolOf(d).containerName

\* C5, as the code has it: of two such siblings that are no script nodes, the
\* first of that name, kind and first-span start in the tree is the only one in
\* the outline; the children of both are visited, and each child in the outline
\* has the name of its nearest ancestor in the outline as its container name: the
\* name of its parent under the first sibling, and what the duplicate sibling was
\* itself visited with under the duplicate.
C5_DuplicateSiblingsContainers ==
    Outlined =>
        /\ Len(result) = Cardinality(Firsts)
        /\ \A i, j \in 1..Len(Items) :
              DuplicateSiblings(i, j) =>
                  /\ j \notin Firsts
                  /\ Items[i].kind # "script" => Cardinality({k \in 1..i : k \in Firsts /\ sig(Items[k]) = sig(Items[i])}) = 1
                  /\ \A c \in Firsts :
                        /\ Items[c].parent = i /\ i \in Firsts => SymbolOf(c).containerName = Items[i].text
                        /\ Items[c].parent = j => SymbolOf(c).containerName = ContainerOf(j)
                        /\ Items[c].parent \in {i, j} => SymbolOf(c).name = Items[c].text

\* two top-level classes A at one place, the first with a method in the outline
\* under A, the second with a class in the outline under nothing
C5_Witness ==
    /\ Outlined
    /\ Len(Items) = 4
    /\ DuplicateSiblings(1, 3)
    /\ Items[1].parent = 0 /\ Items[1].kind = "class"
    /\ Items[2].parent = 1 /\ Items[4].parent = 3
    /\ Firsts = {1, 2, 4}
    /\ Len(result) = 3
    /\ result[2].containerName = "A"
    /\ result[3].containerName = Undefined

(***************************************************************************)
(* The edits of format, over the answers of up to MaxEdits edits.          *)
(***************************************************************************)
EditSpans == {Span(start, length) : start \in 0..3, length \in {0, 2, 3}}

InitFormat ==
    /\ InitWith({Paths})
    /\ \/ service = [ServiceFull EXCEPT !.formattingEdits = Nothing]
       \/ \E n \in 0..MaxEdits :
             \E spans \in [1..n -> EditSpans] :
                service = [ServiceFull EXCEPT
                              !.formattingEdits =
                                  [defined |-> TRUE,
                                   edits |-> [i \in 1..n |-> [span |-> spans[i], newText |-> " "]]]]

NextFormat ==
    \/ \E c \in SmallConfigs : configure(c)
    \/ \E uri \in Docs, range \in Ranges, formatParams \in FormatParams : format(uri, range, formatParams)

SpecFormat == InitFormat /\ [][NextFormat]_vars

Formatted == op = "format" /\ ~threw

\* the edits of the answer that lie in the range asked for
EditsInRange ==
    LET text == hostDocs[arg.uri].text
        start == offsetAt(text, arg.range.start)
        end == offsetAt(text, arg.range.end)
        edits == arg.edits.edits
    IN  {i \in 1..Len(edits) :
            start <= edits[i].span.start /\ edits[i].span.start + edits[i].span.length <= end}

\* C3: format returns the edits of the language service whose span lies in the
\* range asked for (start <= span.start and span.start + span.length <= end), in
\* the order of the answer, and nothing when there is no answer or no edit.
C3_EditsClippedToRange ==
    Formatted =>
        IF ~arg.edits.defined THEN result = <<>>
        ELSE /\ Len(result) = Cardinality(EditsInRange)
             /\ \A k \in 1..Len(result) :
                   LET edit == arg.edits.edits[Nth(EditsInRange, k)]
                   IN  result[k] = [range |-> convertRange(hostDocs[arg.uri].text, edit.span),
                                    newText |-> edit.newText]

\* the range is the offsets 1 to 3 of a.vue; of an edit of the span 1 to 4 and an
\* edit of the span 1 to 3, the second is returned
C3_Witness ==
    /\ Formatted
    /\ arg.uri = UriA
    /\ arg.range = [start |-> Position(0, 1), end |-> Position(0, 3)]
    /\ arg.edits.defined
    /\ Len(arg.edits.edits) = 2
    /\ arg.edits.edits[1].span = Span(1, 3)
    /\ arg.edits.edits[2].span = Span(1, 2)
    /\ Len(result) = 1
    /\ result[1].range = [start |-> Position(0, 1), end |-> Position(1, 0)]

(***************************************************************************)
(* Completion and its resolve step, over the answers of up to MaxEntries   *)
(* entries.                                                                *)
(***************************************************************************)
CompletionEntries ==
    {[name |-> "x", kind |-> "property", sortText |-> "0"],
     [name |-> "y", kind |-> "let", sortText |-> "1"],
     [name |-> "__vueEditorBridge", kind |-> "function", sortText |-> "0"],
     [name |-> "x", kind |-> "property", sortText |-> "0", replacementSpan |-> Span(3, 1)],
     [name |-> "y", kind |-> "let", sortText |-> "1", replacementSpan |-> Span(0, 2)],
     [name |-> "__vueEditorBridge", kind |-> "function", sortText |-> "0", replacementSpan |-> Span(0, 1)]}

InitComplete ==
    /\ InitWith({Paths})
    /\ \E detailed \in SUBSET {"x", "y"} :
          LET entryDetails == [n \in EntryNames |-> IF n \in detailed THEN SomeDetails ELSE Nothing]
          IN  \/ service = [ServiceFull EXCEPT !.completions = Nothing, !.entryDetails = entryDetails]
              \/ \E n \in 0..MaxEntries :
                    \E entries \in [1..n -> CompletionEntries] :
                       service = [ServiceFull EXCEPT
                                     !.completions = [defined |-> TRUE, entries |-> entries],
                                     !.entryDetails = entryDetails]

NextComplete ==
    \/ \E uri \in Docs, position \in Positions : doComplete(uri, position)
    \/ \E uri \in Docs : \E item \in ClientItems(uri) : doResolve(uri, item)

SpecComplete == InitComplete /\ [][NextComplete]_vars

Completed == op = "doComplete" /\ "completions" \in DOMAIN arg

\* the entries of the answer
Entries == IF arg.completions.defined THEN arg.completions.entries ELSE <<>>

Shown == {i \in 1..Len(Entries) : Entries[i].name # "__vueEditorBridge"}

\* C8: doComplete on a file of the program returns a list that is not
\* incomplete, with one item for each entry not named __vueEditorBridge, in the
\* order of the answer: the label and the sort text of the entry, a text edit if
\* and only if the entry has a replacement span, and as data the document's
\* languageId and URI and the offset of the position asked for.
C8_CompletionItems ==
    Completed =>
        /\ result.isIncomplete = FALSE
        /\ Len(result.items) = Cardinality(Shown)
        /\ \A k \in 1..Len(result.items) :
              LET entry == Entries[Nth(Shown, k)]
                  item == result.items[k]
              IN  /\ item.label = entry.name
                  /\ item.label # "__vueEditorBridge"
                  /\ item.sortText = entry.sortText
                  /\ "textEdit" \in DOMAIN item <=> "replacementSpan" \in DOMAIN entry
                  /\ item.data = [languageId |-> LanguageId,
                                  uri |-> arg.uri,
                                  offset |-> offsetAt(hostDocs[arg.uri].text, arg.position)]

\* an answer of the bridge symbol and an entry with a replacement span: one item
C8_Witness ==
    /\ Completed
    /\ Len(Entries) = 2
    /\ Entries[1].name = "__vueEditorBridge"
    /\ "replacementSpan" \in DOMAIN Entries[2]
    /\ arg.position = Position(1, 1)
    /\ Len(result.items) = 1
    /\ result.items[1].label = "y"
    /\ result.items[1].data.offset = 4
    /\ "textEdit" \in DOMAIN result.items[1]

Resolved == op = "doResolve" /\ "details" \in DOMAIN arg

\* C7: doResolve on a file of the program asks for the entry details at the item's
\* data.offset under the item's label; with details the item comes back with detail
\* and documentation and without data, without details it comes back as it was, data
\* included; label, kind, sortText and textEdit are as they were in both cases.
C7_ResolveClearsData ==
    Resolved =>
        /\ calls[3].method = "getCompletionEntryDetails"
        /\ calls[3].args = [offset |-> arg.item.data.offset, name |-> arg.item.label]
        /\ arg.details.defined =>
              /\ "data" \notin DOMAIN result
              /\ {"detail", "documentation"} \subseteq DOMAIN result
              /\ result.detail = "var x"
              /\ result.documentation = "doc"
        /\ ~arg.details.defined => result = arg.item /\ "data" \in DOMAIN result
        /\ \A k \in {"label", "kind", "sortText", "textEdit"} :
              /\ k \in DOMAIN result <=> k \in DOMAIN arg.item
              /\ k \in DOMAIN result => result[k] = arg.item[k]

\* an item with a text edit is resolved with details
C7_Witness ==
    /\ Resolved
    /\ arg.details.defined
    /\ "textEdit" \in DOMAIN arg.item
    /\ "data" \in DOMAIN arg.item
    /\ "data" \notin DOMAIN result
    /\ result.detail = "var x"

(***************************************************************************)
(* The classifiers, over the kinds of the language service and over        *)
(* strings that are no kind.                                               *)
(***************************************************************************)
ScriptElementKinds ==
    {"", "warning", "keyword", "script", "module", "class", "local class", "interface", "type",
     "enum", "enum member", "var", "local var", "function", "local function", "method", "getter",
     "setter", "property", "constructor", "call", "index", "construct", "parameter",
     "type parameter", "primitive type", "label", "alias", "const", "let", "directory",
     "external module name", "JSX attribute", "string"}

KindStrings ==
    ScriptElementKinds \cup {kind \o "s" : kind \in ScriptElementKinds}
                       \cup {"a " \o kind : kind \in ScriptElementKinds}

InitKinds ==
    /\ InitWith({Paths})
    /\ \E kind \in KindStrings :
          service = [ServiceFull EXCEPT
                        !.completions = [defined |-> TRUE,
                                         entries |-> <<[name |-> "x", kind |-> kind, sortText |-> "0"]>>],
                        !.navigationBarItems =
                            [defined |-> TRUE,
                             items |-> <<[text |-> "x", kind |-> kind, spans |-> <<Span(0, 1)>>,
                                          parent |-> 0]>>]]

NextKinds ==
    \/ \E position \in Positions : doComplete(UriA, position)
    \/ findDocumentSymbols(UriA)

SpecKinds == InitKinds /\ [][NextKinds]_vars

CompletionItemKinds ==
    {"CompletionItemKind.Keyword", "CompletionItemKind.Variable", "CompletionItemKind.Field",
     "CompletionItemKind.Function", "CompletionItemKind.Enum", "CompletionItemKind.Module",
     "CompletionItemKind.Class", "CompletionItemKind.Interface", "CompletionItemKind.File",
     "CompletionItemKind.Property"}

SymbolKinds ==
    {"SymbolKind.Variable", "SymbolKind.Function", "SymbolKind.Enum", "SymbolKind.Module",
     "SymbolKind.Class", "SymbolKind.Interface", "SymbolKind.Method", "SymbolKind.Property"}

\* the kinds the switch of convertKind and the switch of convertSymbolKind name
CompletionTable ==
    {"primitive type", "keyword", "var", "local var", "property", "getter", "setter", "function",
     "method", "construct", "call", "index", "enum", "module", "class", "interface", "warning"}

SymbolTable ==
    {"var", "local var", "const", "function", "local function", "enum", "module", "class",
     "interface", "method", "property", "getter", "setter"}

\* the member of the enumeration of the same name: class to Class
OneToOne(enumeration, kind) ==
    CASE kind = "class" -> enumeration \o ".Class"
      [] kind = "interface" -> enumeration \o ".Interface"
      [] kind = "enum" -> enumeration \o ".Enum"
      [] kind = "module" -> enumeration \o ".Module"

\* C9: the classifiers are total: a kind that the table of convertKind does not
\* name is a Property, one that the table of convertSymbolKind does not name is a
\* Variable, the result is always a member of the enumeration, and the kinds of
\* the tables get their members (keyword and primitive type: Keyword; var and
\* local var: Variable; function, method, construct, call and index: Function, as
\* completion items; class, interface, enum and module: the member of that name).
C9_ClassifiersTotal ==
    /\ (Completed /\ result.items # <<>>) =>
          LET kind == Entries[1].kind
              item == result.items[1].kind
          IN  /\ item \in CompletionItemKinds
              /\ kind \notin CompletionTable => item = "CompletionItemKind.Property"
              /\ kind \in {"keyword", "primitive type"} => item = "CompletionItemKind.Keyword"
              /\ kind \in {"var", "local var"} => item = "CompletionItemKind.Variable"
              /\ kind \in {"function", "method", "construct", "call", "index"} =>
                    item = "CompletionItemKind.Function"
              /\ kind \in {"class", "interface", "enum", "module"} =>
                    item = OneToOne("CompletionItemKind", kind)
    /\ (Outlined /\ result # <<>>) =>
          LET kind == Items[1].kind
              symbol == result[1].kind
          IN  /\ symbol \in SymbolKinds
              /\ kind \notin SymbolTable => symbol = "SymbolKind.Variable"
              /\ kind \in {"var", "local var"} => symbol = "SymbolKind.Variable"
              /\ kind \in {"class", "interface", "enum", "module"} =>
                    symbol = OneToOne("SymbolKind", kind)

\* a completion entry of a kind that no table names
C9_Witness ==
    /\ Completed
    /\ result.items # <<>>
    /\ Entries[1].kind = "keywords"
    /\ result.items[1].kind = "CompletionItemKind.Property"

====
